---- MODULE Spec2Model ----
(***************************************************************************)
(* Beep-propagation (PASC) consensus over amoebot chains and stripes.      *)
(*                                                                         *)
(* Two programs are modelled, each as the run of one script:               *)
(*   pasc_linear   : AmoebotStructure.run_pasc / send_beep over the nodes  *)
(*                   of the loaded model, in graph order;                  *)
(*   global_maxima : AmoebotStructure.run_global_maxima / send_beep over   *)
(*                   the stripes of the loaded model.                      *)
(* Python indices are kept 0-based; At(s, k) reads element k of a list.    *)
(* Bit strings are sequences over {0, 1}, first character first.           *)
(***************************************************************************)
EXTENDS Integers, Sequences, FiniteSets

(***************************************************************************)
(* Bounds of the explored inputs.                                          *)
(***************************************************************************)
MaxN == 9
MaxCoord == 1
MaxNodes == 3
MaxRounds == 6
MaxRerun == 9
MaxPerm == 3
MaxDup == 3
MaxToken == 3
MaxRow == 5
MaxLines == 3
MaxCols == 3

(***************************************************************************)
(* Program constants.                                                      *)
(***************************************************************************)
GridWidth == 5
GridHeight == 5

Directions == {"N", "S", "E", "W", "NE", "NW", "SE", "SW"}

\* The direction argument of the core: a recognised token or any other string.
Tokens == Directions \cup {"X"}

At(s, k) == s[k + 1]

(***************************************************************************)
(* Lattice models: the graph's nodes in insertion order, each (id, q, r).  *)
(***************************************************************************)
\* create_hexagonal_grid: ids count up with q outer and r inner.
HexGrid(w, h) ==
    [k \in 1..(w * h) |-> [id |-> k - 1, q |-> (k - 1) \div h, r |-> (k - 1) % h]]

\* One text row of n cells as the converter writes it: q = col, r = -(col // 2).
LineModel(n) ==
    [k \in 1..n |-> [id |-> k - 1, q |-> k - 1, r |-> 0 - ((k - 1) \div 2)]]

WindowSide == 2 * MaxCoord + 1

WindowSeq ==
    [k \in 1..(WindowSide * WindowSide) |->
        <<((k - 1) % WindowSide) - MaxCoord, ((k - 1) \div WindowSide) - MaxCoord>>]

Window == {WindowSeq[k] : k \in DOMAIN WindowSeq}

\* A model file listing the cells of S row by row, ids 0, 1, 2, ...
SparseModel(S) ==
    LET cells == SelectSeq(WindowSeq, LAMBDA c : c \in S)
    IN  [k \in 1..Len(cells) |-> [id |-> k - 1, q |-> cells[k][1], r |-> cells[k][2]]]

\* The orders in which a file can list the ids 0..n-1.
IdOrders(n) ==
    {f \in [1..n -> 0..(n - 1)] : \A a, b \in 1..n : a # b => f[a] # f[b]}

\* A model file listing a row of cells with its ids in the order f.
PermModel(f) ==
    [k \in DOMAIN f |-> [id |-> f[k], q |-> k - 1, r |-> 0 - ((k - 1) \div 2)]]

Models ==
    {HexGrid(GridWidth, GridHeight)}
        \cup {LineModel(n) : n \in 1..MaxN}
        \cup {SparseModel(S) : S \in {T \in SUBSET Window : Cardinality(T) <= MaxNodes}}
        \cup UNION {{PermModel(f) : f \in IdOrders(n)} : n \in 1..MaxPerm}

Ids(m) == {m[k].id : k \in DOMAIN m}

(***************************************************************************)
(* The edges of the graph: pairs (u, v) with v adjacent to u.              *)
(***************************************************************************)
neighbor_dirs == {<<1, 0>>, <<-1, 0>>, <<0, 1>>, <<0, -1>>, <<1, -1>>, <<-1, 1>>}

\* create_hexagonal_grid: every node is connected to the node found at each
\* of its six neighbouring coordinates; an edge is adjacent both ways.
GridEdges(m) ==
    LET found == {<<a, b>> \in (DOMAIN m) \X (DOMAIN m) :
                     \E d \in neighbor_dirs :
                         m[b].q = m[a].q + d[1] /\ m[b].r = m[a].r + d[2]}
    IN  {<<m[p[1]].id, m[p[2]].id>> : p \in found}
            \cup {<<m[p[2]].id, m[p[1]].id>> : p \in found}

\* load_from_file: nodes are added, no connection is.
FileEdges(m) == {}

VARIABLES
    prog,            \* which script runs
    model,           \* graph nodes in insertion order
    direction,       \* direction argument (global_maxima)
    index,           \* reference node id argument
    pc,              \* position in the run
    node_list,       \* pasc_linear: list of node attribute dicts
    ref_node,        \* pasc_linear: the dict object of the reference (by id)
    ref_node_index,  \* pasc_linear: node_list.index(ref_node)
    groups,          \* global_maxima: dense stripe index -> list of items
    find_key,        \* global_maxima: keys of stripes holding the reference
    i,               \* sweep loop variable
    active_sum,
    step_total,
    step_all_lines,
    pasc_iterations,
    run,             \* 1: first run on the structure, 2: second run with the
                     \* same entries, 3: second run in the opposite direction
    first,           \* what the first run returned and left behind
    edges,           \* the adjacency of the graph
    graph,           \* pasc: node id -> state and identifier of the node
    iteration,       \* pasc: rounds of run_PASC_simulation so far
    vpc,             \* pasc: position in run_PASC_simulation
    token,           \* stripe: the direction as entered, a list of characters
    direction_param, \* stripe: the direction handed to run_all_stripes
    stripe_nodes,    \* stripe: ids of the enumerated nodes
    lines,           \* ascii_to_axial: the lines of the input grid
    nodes,           \* ascii_to_axial: the (node_id, q, r) records collected
    out,             \* ascii_to_axial: the output file, "absent" or its records
    node_id,         \* ascii_to_axial: the next id to give
    row,             \* ascii_to_axial: the row the outer loop is at
    col_count        \* ascii_to_axial: the length of the first line

vars == <<prog, model, direction, index, pc, node_list, ref_node, ref_node_index,
          groups, find_key, i, active_sum, step_total, step_all_lines,
          pasc_iterations, run, first, edges, graph, iteration, vpc, token,
          direction_param, stripe_nodes, lines, nodes, out, node_id, row,
          col_count>>

\* The state of the programs other than the two beep engines.
others == <<graph, iteration, vpc, token, direction_param, stripe_nodes, lines,
            nodes, out, node_id, row, col_count>>

\* What a step of a beep engine leaves alone.
inputs == <<prog, model, direction, index, run, first, edges, others>>

(***************************************************************************)
(* The beep transition table shared by all four sweeps.                    *)
(***************************************************************************)
\* BeepCase without its last branch.
BeepCaseNoFourth(primary, secondary, active) ==
    IF primary /\ active THEN 1
    ELSE IF primary /\ ~active THEN 2
    ELSE IF secondary /\ active THEN 3
    ELSE 0

\* BeepCase without its second branch.
BeepCaseNoSecond(primary, secondary, active) ==
    IF primary /\ active THEN 1
    ELSE IF secondary /\ active THEN 3
    ELSE IF secondary /\ ~active THEN 4
    ELSE 0

\* Which branch of the if/elif chain is taken (0: none).
BeepCase(primary, secondary, active) ==
    IF primary /\ active THEN 1
    ELSE IF primary /\ ~active THEN 2
    ELSE IF secondary /\ active THEN 3
    ELSE IF secondary /\ ~active THEN 4
    ELSE 0

\* ApplyCase with the body of the first branch pasted into the second.
ApplyCaseFlip(c, d) ==
    IF c = 1 THEN [d EXCEPT !.primary = FALSE, !.secondary = TRUE]
    ELSE IF c = 2 THEN [d EXCEPT !.primary = FALSE, !.secondary = TRUE]
    ELSE IF c = 3 THEN [d EXCEPT !.primary = TRUE, !.secondary = FALSE]
    ELSE IF c = 4 THEN [d EXCEPT !.primary = FALSE, !.secondary = TRUE]
    ELSE d

\* The assignments of branch c applied to one dict.
ApplyCase(c, d) ==
    IF c = 1 THEN [d EXCEPT !.primary = FALSE, !.secondary = TRUE]
    ELSE IF c = 2 THEN [d EXCEPT !.primary = TRUE, !.secondary = FALSE]
    ELSE IF c = 3 THEN [d EXCEPT !.primary = TRUE, !.secondary = FALSE]
    ELSE IF c = 4 THEN [d EXCEPT !.primary = FALSE, !.secondary = TRUE]
    ELSE d

\* AddBit appending the symbol instead of prepending it.
AddBitAppend(f, d) ==
    IF f.primary THEN [d EXCEPT !.bits = @ \o <<0>>]
    ELSE IF f.secondary THEN [d EXCEPT !.bits = @ \o <<1>>]
    ELSE d

\* AddBit with the two symbols exchanged.
AddBitSwapped(f, d) ==
    IF f.primary THEN [d EXCEPT !.bits = <<1>> \o @]
    ELSE IF f.secondary THEN [d EXCEPT !.bits = <<0>> \o @]
    ELSE d

\* AddBit prepending '1' in both branches.
AddBitOnes(f, d) ==
    IF f.primary THEN [d EXCEPT !.bits = <<1>> \o @]
    ELSE IF f.secondary THEN [d EXCEPT !.bits = <<1>> \o @]
    ELSE d

\* "Add bits": prepend '0' if primary, '1' if secondary, as flagged by f.
AddBit(f, d) ==
    IF f.primary THEN [d EXCEPT !.bits = <<0>> \o @]
    ELSE IF f.secondary THEN [d EXCEPT !.bits = <<1>> \o @]
    ELSE d

\* Deactivates testing the primary flag.
DeactivatesPrimary(f) == f.active /\ f.primary

\* Should a dict flagged by f be deactivated.
Deactivates(f) == f.active /\ f.secondary

\* ResetNode assigning the active flag from the secondary flag.
ResetNodeAssign(f, d) ==
    [d EXCEPT !.active = ~f.secondary,
              !.primary = FALSE,
              !.secondary = FALSE]

\* ResetNode leaving the secondary flag as it is.
ResetNodeKeepSecondary(f, d) ==
    [d EXCEPT !.active = IF Deactivates(f) THEN FALSE ELSE @,
              !.primary = FALSE]

\* ResetNode clearing the flags before it tests them for deactivation.
ResetNodeFirst(f, d) ==
    [d EXCEPT !.primary = FALSE,
              !.secondary = FALSE]

\* Deactivation followed by the flag reset, as flagged by f.
ResetNode(f, d) ==
    [d EXCEPT !.active = IF Deactivates(f) THEN FALSE ELSE @,
              !.primary = FALSE,
              !.secondary = FALSE]

\* LoopCond running until no segment is active.
LoopCondZero(sum) == sum # 0

\* LoopCond stopping as soon as two segments are left.
LoopCondTwo(sum) == sum > 2

\* The loop condition of both engines.
LoopCond(sum) == sum # 1

(***************************************************************************)
(* pasc_linear                                                             *)
(***************************************************************************)
\* Python dict equality of two node attribute dicts (the id is the graph
\* key, not an attribute; pos and stripe are functions of axial).
NodeEq(a, b) ==
    /\ a.axial = b.axial
    /\ a.primary = b.primary
    /\ a.secondary = b.secondary
    /\ a.active = b.active
    /\ a.bits = b.bits

\* The dict object of the node with graph key id.
NodeOf(list, id) == list[CHOOSE k \in DOMAIN list : list[k].id = id]

\* list.index(obj): position of the first element equal to obj.
ListIndex(list, id) ==
    LET hits == {k \in DOMAIN list : NodeEq(list[k], NodeOf(list, id))}
    IN  (CHOOSE k \in hits : \A l \in hits : k <= l) - 1

\* SetRefPrimary marking the first node of the list.
SetRefPrimaryFirst(list, id) ==
    [k \in DOMAIN list |->
        IF k = 1 THEN [list[k] EXCEPT !.primary = TRUE] ELSE list[k]]

\* ref_node['primary'] = True
SetRefPrimary(list, id) ==
    [k \in DOMAIN list |->
        IF list[k].id = id THEN [list[k] EXCEPT !.primary = TRUE] ELSE list[k]]

\* ActiveSumNodes counting from the second node on.
ActiveSumNodesSkipFirst(list) ==
    Cardinality({k \in DOMAIN list : k > 1 /\ list[k].active})

ActiveSumNodes(list) == Cardinality({k \in DOMAIN list : list[k].active})

\* The node attribute dicts of the graph after loading, in insertion order;
\* the state keys run_pasc has not created yet read as unset.
GraphNodes(m) ==
    [k \in DOMAIN m |->
        [id |-> m[k].id, axial |-> <<m[k].q, m[k].r>>,
         primary |-> FALSE, secondary |-> FALSE, active |-> FALSE, bits |-> <<>>]]

\* FreshNodeList leaving the bits of an earlier run in place.
FreshNodeListKeepBits(dicts) ==
    [k \in DOMAIN dicts |->
        [dicts[k] EXCEPT !.primary = FALSE, !.secondary = FALSE, !.active = TRUE]]

\* run_pasc: the state keys assigned afresh on every dict, in graph order.
FreshNodeList(dicts) ==
    [k \in DOMAIN dicts |->
        [dicts[k] EXCEPT !.primary = FALSE, !.secondary = FALSE, !.active = TRUE,
                         !.bits = <<>>]]

\* NodesAtKeyError with the reset loop placed before the lookup.
NodesAtKeyErrorReset(dicts) == FreshNodeList(dicts)

\* The node dicts as the failing lookup of the reference leaves them: the
\* lookup comes first in run_pasc, nothing has been assigned yet.
NodesAtKeyError(dicts) == dicts

\* RightActive consulting the neighbour the beep comes from.
RightActiveSlip(list, k) == At(list, k - 1).active

\* The active flag consulted by the right sweep and by the left sweep at i.
RightActive(list, k) == At(list, k).active
LeftActive(list, k) == At(list, k + 1).active

RunPasc ==
    /\ prog = "pasc_linear"
    /\ pc = "start"
    /\ IF index \notin Ids(model)
       THEN /\ pc' = "KeyError"
            /\ node_list' = NodesAtKeyError(node_list)
            /\ UNCHANGED <<ref_node, ref_node_index, active_sum>>
       ELSE LET list == FreshNodeList(node_list)
            IN  /\ ref_node' = index
                /\ ref_node_index' = ListIndex(list, index)
                /\ node_list' = SetRefPrimary(list, index)
                /\ active_sum' = ActiveSumNodes(list)
                /\ pc' = "loop"
    /\ step_total' = 0
    /\ pasc_iterations' = 0
    /\ UNCHANGED <<inputs, groups, find_key, i, step_all_lines>>

PascLoop ==
    /\ prog = "pasc_linear"
    /\ pc = "loop"
    /\ IF LoopCond(active_sum)
       THEN /\ pasc_iterations < MaxRounds
            /\ pasc_iterations' = pasc_iterations + 1
            /\ i' = ref_node_index + 1
            /\ pc' = "right"
       ELSE /\ pc' = "done"
            /\ UNCHANGED <<pasc_iterations, i>>
    /\ UNCHANGED <<inputs, node_list, ref_node, ref_node_index, groups, find_key,
                   active_sum, step_total, step_all_lines>>

PascRight ==
    /\ prog = "pasc_linear"
    /\ pc = "right"
    /\ IF i < Len(node_list)
       THEN LET c == IF i # 0
                     THEN BeepCase(At(node_list, i - 1).primary,
                                   At(node_list, i - 1).secondary,
                                   RightActive(node_list, i))
                     ELSE 0
            IN  /\ node_list' = [node_list EXCEPT ![i + 1] = ApplyCase(c, @)]
                /\ step_total' = IF c # 0 THEN step_total + 1 ELSE step_total
                /\ i' = i + 1
                /\ pc' = "right"
       ELSE /\ i' = ref_node_index - 1
            /\ pc' = "left"
            /\ UNCHANGED <<node_list, step_total>>
    /\ UNCHANGED <<inputs, ref_node, ref_node_index, groups, find_key, active_sum,
                   step_all_lines, pasc_iterations>>

PascLeft ==
    /\ prog = "pasc_linear"
    /\ pc = "left"
    /\ IF i > -1
       THEN LET c == BeepCase(At(node_list, i + 1).primary,
                              At(node_list, i + 1).secondary,
                              LeftActive(node_list, i))
            IN  /\ node_list' = [node_list EXCEPT ![i + 1] = ApplyCase(c, @)]
                /\ step_total' = IF c # 0 THEN step_total + 1 ELSE step_total
                /\ i' = i - 1
                /\ pc' = "left"
       ELSE /\ pc' = "bits"
            /\ UNCHANGED <<node_list, step_total, i>>
    /\ UNCHANGED <<inputs, ref_node, ref_node_index, groups, find_key, active_sum,
                   step_all_lines, pasc_iterations>>

PascAddBits ==
    /\ prog = "pasc_linear"
    /\ pc = "bits"
    /\ node_list' = [k \in DOMAIN node_list |-> AddBit(node_list[k], node_list[k])]
    /\ pc' = "reset"
    /\ UNCHANGED <<inputs, ref_node, ref_node_index, groups, find_key, i, active_sum,
                   step_total, step_all_lines, pasc_iterations>>

PascReset ==
    /\ prog = "pasc_linear"
    /\ pc = "reset"
    /\ LET list == [k \in DOMAIN node_list |-> ResetNode(node_list[k], node_list[k])]
       IN  /\ ref_node_index' = ListIndex(list, ref_node)
           /\ node_list' = SetRefPrimary(list, ref_node)
           /\ active_sum' = ActiveSumNodes(list)
    /\ pc' = "loop"
    /\ UNCHANGED <<inputs, ref_node, groups, find_key, i, step_total, step_all_lines,
                   pasc_iterations>>

(***************************************************************************)
(* global_maxima                                                           *)
(***************************************************************************)
\* StripeId with r as the default key.
StripeIdDefaultR(axial, dir) ==
    LET q == axial[1]
        r == axial[2]
    IN  IF dir \in {"N", "S"} THEN q
        ELSE IF dir \in {"NE", "SW"} THEN r
        ELSE IF dir \in {"NW", "SE"} THEN q + r
        ELSE IF dir \in {"E", "W"} THEN q + 2 * r
        ELSE r

StripeId(axial, dir) ==
    LET q == axial[1]
        r == axial[2]
    IN  IF dir \in {"N", "S"} THEN q
        ELSE IF dir \in {"NE", "SW"} THEN r
        ELSE IF dir \in {"NW", "SE"} THEN q + r
        ELSE IF dir \in {"E", "W"} THEN q + 2 * r
        ELSE q

\* AlternateDirection handing the requested direction through.
AlternateDirectionSame(dir) == dir

AlternateDirection(dir) ==
    IF dir = "N" \/ dir = "S" THEN "E"
    ELSE IF dir = "E" \/ dir = "W" THEN "N"
    ELSE IF dir = "NE" \/ dir = "SW" THEN "NW"
    ELSE IF dir = "NW" \/ dir = "SE" THEN "NE"
    ELSE ""

\* The stripe key of a graph node under the alternate direction.
NodeSid(n, dir) == StripeId(<<n.q, n.r>>, AlternateDirection(dir))

\* unique_sids, as a set; sid_count is its size.
UniqueSids(m, dir) == {NodeSid(m[k], dir) : k \in DOMAIN m}

\* GroupSid without the reversal.
GroupSidPlain(sid, sid_count, dir) == sid

\* The key under which a node with stripe key sid enters groups.
GroupSid(sid, sid_count, dir) ==
    IF dir \in {"S", "W", "SW", "SE"} THEN sid_count - sid - 1 ELSE sid

\* sorted(S) for a finite set of integers.
Sorted(S) ==
    [j \in 1..Cardinality(S) |->
        CHOOSE x \in S : Cardinality({y \in S : y < x}) = j - 1]

FreshItem(n) ==
    [node |-> n.id, primary |-> FALSE, secondary |-> FALSE, active |-> TRUE,
     bits |-> <<>>]

\* groups after the first pass: the items of one key, in graph order.
GroupOf(m, dir, key) ==
    LET sid_count == Cardinality(UniqueSids(m, dir))
        members == SelectSeq(m, LAMBDA n : GroupSid(NodeSid(n, dir), sid_count, dir) = key)
    IN  [k \in DOMAIN members |-> FreshItem(members[k])]

\* NewSids stopping one short.
NewSidsShort(sorted_sids) == 0..(Len(sorted_sids) - 2)

\* The dense indices new_groups is built over.
NewSids(sorted_sids) == 0..(Len(sorted_sids) - 1)

\* new_groups: sorted keys renumbered 0..k-1.
NewGroups(m, dir) ==
    LET sid_count == Cardinality(UniqueSids(m, dir))
        keys == {GroupSid(s, sid_count, dir) : s \in UniqueSids(m, dir)}
        sorted_sids == Sorted(keys)
    IN  [new_sid \in NewSids(sorted_sids) |-> GroupOf(m, dir, At(sorted_sids, new_sid))]

\* FindKey with the comparison negated.
FindKeyOther(g, ref) ==
    Sorted({k \in DOMAIN g : \E j \in DOMAIN g[k] : g[k][j].node # ref})

\* FindKey falling back to the first stripe when no stripe holds ref.
FindKeyOrFirst(g, ref) ==
    LET hits == {k \in DOMAIN g : \E j \in DOMAIN g[k] : g[k][j].node = ref}
    IN  IF hits = {} /\ DOMAIN g # {} THEN <<0>> ELSE Sorted(hits)

\* FindKey answering key 0 when no stripe holds ref, stripes or not.
FindKeyDefault(g, ref) ==
    LET hits == {k \in DOMAIN g : \E j \in DOMAIN g[k] : g[k][j].node = ref}
    IN  IF hits = {} THEN <<0>> ELSE Sorted(hits)

\* find_key: the keys of the groups with an item whose node is ref.
FindKey(g, ref) ==
    Sorted({k \in DOMAIN g : \E j \in DOMAIN g[k] : g[k][j].node = ref})

\* SetGroupPrimary marking the first item of the stripe only.
SetGroupPrimaryFirstItem(g, key) ==
    [g EXCEPT ![key] = [j \in DOMAIN @ |->
                           IF j = 1 THEN [@[j] EXCEPT !.primary = TRUE] ELSE @[j]]]

\* for item in groups.get(key, []): item['primary'] = True
SetGroupPrimary(g, key) ==
    [g EXCEPT ![key] = [j \in DOMAIN @ |-> [@[j] EXCEPT !.primary = TRUE]]]

ActiveSumGroups(g) == Cardinality({k \in DOMAIN g : At(g[k], 0).active})

\* The active flag consulted by the right sweep and by the left sweep at i.
GmRightActive(g, k) == At(g[k], 0).active

\* GmLeftActive consulting the stripe the sweep is at.
GmLeftActiveOwn(g, k) == At(g[k], 0).active

GmLeftActive(g, k) == At(g[k + 1], 0).active

\* run_global_maxima up to its call of send_beep: the decomposition.
RunGlobalMaxima ==
    /\ prog = "global_maxima"
    /\ pc = "start"
    /\ groups' = NewGroups(model, direction)
    /\ pc' = "send_beep"
    /\ UNCHANGED <<inputs, node_list, ref_node, ref_node_index, find_key, i,
                   active_sum, step_total, step_all_lines, pasc_iterations>>

\* send_beep up to its round loop.
GmSendBeep ==
    /\ prog = "global_maxima"
    /\ pc = "send_beep"
    /\ LET fk == FindKey(groups, index)
       IN  /\ find_key' = fk
           /\ IF fk = <<>>
              THEN /\ pc' = "IndexError"
                   /\ UNCHANGED <<groups, active_sum>>
              ELSE /\ groups' = SetGroupPrimary(groups, At(fk, 0))
                   /\ active_sum' = ActiveSumGroups(groups)
                   /\ pc' = "loop"
    /\ step_total' = 0
    /\ step_all_lines' = 0
    /\ pasc_iterations' = 0
    /\ UNCHANGED <<inputs, node_list, ref_node, ref_node_index, i>>

GmLoop ==
    /\ prog = "global_maxima"
    /\ pc = "loop"
    /\ IF LoopCond(active_sum)
       THEN /\ pasc_iterations < MaxRounds
            /\ pasc_iterations' = pasc_iterations + 1
            /\ i' = At(find_key, 0) + 1
            /\ pc' = "right"
       ELSE /\ pc' = "done"
            /\ UNCHANGED <<pasc_iterations, i>>
    /\ UNCHANGED <<inputs, node_list, ref_node, ref_node_index, groups, find_key,
                   active_sum, step_total, step_all_lines>>

\* One iteration of a sweep over stripe i with branch c.
SweepGroup(g, k, c) == [g EXCEPT ![k] = [j \in DOMAIN @ |-> ApplyCase(c, @[j])]]

GmRight ==
    /\ prog = "global_maxima"
    /\ pc = "right"
    /\ IF i < Cardinality(DOMAIN groups)
       THEN LET c == IF i # 0
                     THEN BeepCase(At(groups[i - 1], 0).primary,
                                   At(groups[i - 1], 0).secondary,
                                   GmRightActive(groups, i))
                     ELSE 0
            IN  /\ groups' = SweepGroup(groups, i, c)
                /\ step_all_lines' = IF i # 0 THEN step_all_lines + 1 ELSE step_all_lines
                /\ step_total' = IF c # 0 THEN step_total + Len(groups[i]) ELSE step_total
                /\ i' = i + 1
                /\ pc' = "right"
       ELSE /\ i' = At(find_key, 0) - 1
            /\ pc' = "left"
            /\ UNCHANGED <<groups, step_total, step_all_lines>>
    /\ UNCHANGED <<inputs, node_list, ref_node, ref_node_index, find_key, active_sum,
                   pasc_iterations>>

GmLeft ==
    /\ prog = "global_maxima"
    /\ pc = "left"
    /\ IF i > -1
       THEN LET c == BeepCase(At(groups[i + 1], 0).primary,
                              At(groups[i + 1], 0).secondary,
                              GmLeftActive(groups, i))
            IN  /\ groups' = SweepGroup(groups, i, c)
                /\ step_all_lines' = step_all_lines + 1
                /\ step_total' = IF c # 0 THEN step_total + Len(groups[i]) ELSE step_total
                /\ i' = i - 1
                /\ pc' = "left"
       ELSE /\ pc' = "bits"
            /\ UNCHANGED <<groups, step_total, step_all_lines, i>>
    /\ UNCHANGED <<inputs, node_list, ref_node, ref_node_index, find_key, active_sum,
                   pasc_iterations>>

\* "Add bits" loop: per stripe, bit, deactivation and reset keyed on item 0.
GmAddBits ==
    /\ prog = "global_maxima"
    /\ pc = "bits"
    /\ groups' = [k \in DOMAIN groups |->
                    LET f == At(groups[k], 0)
                    IN  [j \in DOMAIN groups[k] |->
                            ResetNode(f, AddBit(f, groups[k][j]))]]
    /\ pc' = "reassert"
    /\ UNCHANGED <<inputs, node_list, ref_node, ref_node_index, find_key, i,
                   active_sum, step_total, step_all_lines, pasc_iterations>>

GmReassert ==
    /\ prog = "global_maxima"
    /\ pc = "reassert"
    /\ groups' = SetGroupPrimary(groups, At(find_key, 0))
    /\ active_sum' = ActiveSumGroups(groups)
    /\ pc' = "loop"
    /\ UNCHANGED <<inputs, node_list, ref_node, ref_node_index, find_key, i,
                   step_total, step_all_lines, pasc_iterations>>

(***************************************************************************)
(* A second run on the same structure                                      *)
(***************************************************************************)
\* What a finished run returned, and the bit strings it left behind.
Result ==
    [iterations |-> pasc_iterations,
     steps |-> step_total,
     lines |-> step_all_lines,
     bits |-> IF prog = "pasc_linear"
              THEN [k \in DOMAIN node_list |-> <<node_list[k].bits>>]
              ELSE [k \in DOMAIN groups |->
                       [j \in DOMAIN groups[k] |-> groups[k][j].bits]],
     groups |-> groups]

\* The run button pressed again after a finished run, with the same entries.
RunAgain ==
    /\ pc = "done"
    /\ run = 1
    /\ Len(model) <= MaxRerun
    /\ run' = 2
    /\ first' = Result
    /\ pc' = "start"
    /\ UNCHANGED <<prog, model, direction, index, edges, node_list, ref_node,
                   ref_node_index, groups, find_key, i, active_sum, step_total,
                   step_all_lines, pasc_iterations, others>>

\* The direction opposite to a recognised one.
Opposite(dir) ==
    IF dir = "N" THEN "S" ELSE IF dir = "S" THEN "N"
    ELSE IF dir = "E" THEN "W" ELSE IF dir = "W" THEN "E"
    ELSE IF dir = "NE" THEN "SW" ELSE IF dir = "SW" THEN "NE"
    ELSE IF dir = "NW" THEN "SE" ELSE "NW"

\* The run button pressed again after a finished extremum search, with the
\* opposite direction entered and the same reference.
RunOpposite ==
    /\ prog = "global_maxima"
    /\ pc = "done"
    /\ run = 1
    /\ direction \in Directions
    /\ Len(model) <= MaxRerun
    /\ run' = 3
    /\ direction' = Opposite(direction)
    /\ first' = Result
    /\ pc' = "start"
    /\ UNCHANGED <<prog, model, index, edges, node_list, ref_node,
                   ref_node_index, groups, find_key, i, active_sum, step_total,
                   step_all_lines, pasc_iterations, others>>

(***************************************************************************)
(* Specification                                                           *)
(***************************************************************************)
\* The programs that do not run stay as they are before their start.
OthersIdle ==
    /\ graph = <<>>
    /\ iteration = 0
    /\ vpc = "idle"
    /\ token = <<>>
    /\ direction_param = <<>>
    /\ stripe_nodes = <<>>
    /\ lines = <<>>
    /\ nodes = <<>>
    /\ out = "absent"
    /\ node_id = 0
    /\ row = 0
    /\ col_count = 0

Init ==
    /\ prog \in {"pasc_linear", "global_maxima"}
    /\ model \in Models
    /\ direction \in IF prog = "global_maxima" THEN Tokens ELSE {"-"}
    /\ index \in 0..Len(model)
    /\ edges = IF model = HexGrid(GridWidth, GridHeight)
               THEN GridEdges(model)
               ELSE FileEdges(model)
    /\ OthersIdle
    /\ pc = "start"
    /\ node_list = IF prog = "pasc_linear" THEN GraphNodes(model) ELSE <<>>
    /\ ref_node = -1
    /\ ref_node_index = -1
    /\ groups = <<>>
    /\ find_key = <<>>
    /\ i = 0
    /\ active_sum = 0
    /\ step_total = 0
    /\ step_all_lines = 0
    /\ pasc_iterations = 0
    /\ run = 1
    /\ first = <<>>

Next ==
    \/ RunPasc
    \/ PascLoop
    \/ PascRight
    \/ PascLeft
    \/ PascAddBits
    \/ PascReset
    \/ RunGlobalMaxima
    \/ GmSendBeep
    \/ GmLoop
    \/ GmRight
    \/ GmLeft
    \/ GmAddBits
    \/ GmReassert
    \/ RunAgain
    \/ RunOpposite

Spec == Init /\ [][Next]_vars

\* The interpreter runs the script to its end: every enabled step is taken.
FairSpec == Spec /\ WF_vars(Next)

(***************************************************************************)
(* Both engines on one model file: the chain script first, then the        *)
(* extremum script on the same file with the same reference id.            *)
(***************************************************************************)
\* global_maxima.py started on the file pasc_linear.py has finished on.
RunStripeEngine ==
    /\ prog = "pasc_linear"
    /\ pc = "done"
    /\ run = 1
    /\ \E dir \in Directions : direction' = dir
    /\ prog' = "global_maxima"
    /\ run' = 4
    /\ first' = Result
    /\ pc' = "start"
    /\ UNCHANGED <<model, index, edges, node_list, ref_node, ref_node_index,
                   groups, find_key, i, active_sum, step_total, step_all_lines,
                   pasc_iterations, others>>

PairInit ==
    /\ prog = "pasc_linear"
    /\ model \in {m \in Models : Len(m) <= MaxRerun}
    /\ direction = "-"
    /\ index \in 0..Len(model)
    /\ edges = FileEdges(model)
    /\ OthersIdle
    /\ pc = "start"
    /\ node_list = GraphNodes(model)
    /\ ref_node = -1
    /\ ref_node_index = -1
    /\ groups = <<>>
    /\ find_key = <<>>
    /\ i = 0
    /\ active_sum = 0
    /\ step_total = 0
    /\ step_all_lines = 0
    /\ pasc_iterations = 0
    /\ run = 1
    /\ first = <<>>

PairNext ==
    \/ RunPasc
    \/ PascLoop
    \/ PascRight
    \/ PascLeft
    \/ PascAddBits
    \/ PascReset
    \/ RunStripeEngine
    \/ RunGlobalMaxima
    \/ GmSendBeep
    \/ GmLoop
    \/ GmRight
    \/ GmLeft
    \/ GmAddBits
    \/ GmReassert

PairSpec == PairInit /\ [][PairNext]_vars

(***************************************************************************)
(* pasc: the variant that stops when a round changes nothing               *)
(* (run_PASC_simulation), run on the file the chain script runs on.        *)
(***************************************************************************)
\* The graph of pasc.py after load_from_file: add_amoebot receives the axial
\* pair in the place of the state, so no node is 'active' or 'passive' yet.
LoadedGraph(m) ==
    [id \in Ids(m) |-> [state |-> "axial", identifier |-> <<>>]]

\* chain = sorted(self.graph.nodes(), key=lambda x: x)
SortedChain(g) == Sorted(DOMAIN g)

\* RoundBits taking the bit of the predecessor for an active node.
RoundBitsCopy(g, chain) ==
    LET b[k \in DOMAIN chain] ==
            IF k = 1 THEN 0
            ELSE IF g[chain[k]].state = "active" THEN b[k - 1] ELSE 1 - b[k - 1]
    IN  b

\* bits: 0 for chain[0]; an active node flips the bit of its predecessor, a
\* passive node copies it.
RoundBits(g, chain) ==
    LET b[k \in DOMAIN chain] ==
            IF k = 1 THEN 0
            ELSE IF g[chain[k]].state = "active" THEN 1 - b[k - 1] ELSE b[k - 1]
    IN  b

\* The chain positions behind the first whose node turns passive this round.
TurnsPassive(g, chain, b) ==
    {k \in DOMAIN chain : k > 1 /\ g[chain[k]].state = "active" /\ b[k] = 1}

\* run_PASC_simulation up to its loop: states and identifiers are reset.
VarReset ==
    /\ vpc = "start"
    /\ graph' = [id \in DOMAIN graph |-> [state |-> "active", identifier |-> <<>>]]
    /\ iteration' = 0
    /\ vpc' = "loop"
    /\ UNCHANGED <<prog, model, direction, index, run, first, edges, pc, node_list,
                   ref_node, ref_node_index, groups, find_key, i, active_sum,
                   step_total, step_all_lines, pasc_iterations, token,
                   direction_param, stripe_nodes, lines, nodes, out, node_id, row,
                   col_count>>

\* One pass of the while loop: bits, identifiers, deactivation, stop test.
VarRound ==
    /\ vpc = "loop"
    /\ iteration <= MaxRounds
    /\ iteration' = iteration + 1
    /\ LET chain == SortedChain(graph)
       IN  IF chain = <<>>
           THEN /\ vpc' = "IndexError"
                /\ UNCHANGED graph
           ELSE LET b == RoundBits(graph, chain)
                    passive == TurnsPassive(graph, chain, b)
                    pos(id) == CHOOSE k \in DOMAIN chain : chain[k] = id
                IN  /\ graph' =
                          [id \in DOMAIN graph |->
                              [state |-> IF pos(id) \in passive
                                         THEN "passive"
                                         ELSE graph[id].state,
                               identifier |-> Append(graph[id].identifier, b[pos(id)])]]
                    /\ vpc' = IF passive # {} THEN "loop" ELSE "done"
    /\ UNCHANGED <<prog, model, direction, index, run, first, edges, pc, node_list,
                   ref_node, ref_node_index, groups, find_key, i, active_sum,
                   step_total, step_all_lines, pasc_iterations, token,
                   direction_param, stripe_nodes, lines, nodes, out, node_id, row,
                   col_count>>

VariantInit ==
    /\ prog = "pasc_linear"
    /\ model \in {m \in Models : Len(m) <= MaxRerun}
    /\ direction = "-"
    /\ index \in 0..Len(model)
    /\ edges = FileEdges(model)
    /\ graph = LoadedGraph(model)
    /\ iteration = 0
    /\ vpc = "start"
    /\ token = <<>>
    /\ direction_param = <<>>
    /\ stripe_nodes = <<>>
    /\ lines = <<>>
    /\ nodes = <<>>
    /\ out = "absent"
    /\ node_id = 0
    /\ row = 0
    /\ col_count = 0
    /\ pc = "start"
    /\ node_list = GraphNodes(model)
    /\ ref_node = -1
    /\ ref_node_index = -1
    /\ groups = <<>>
    /\ find_key = <<>>
    /\ i = 0
    /\ active_sum = 0
    /\ step_total = 0
    /\ step_all_lines = 0
    /\ pasc_iterations = 0
    /\ run = 1
    /\ first = <<>>

VariantNext ==
    \/ RunPasc
    \/ PascLoop
    \/ PascRight
    \/ PascLeft
    \/ PascAddBits
    \/ PascReset
    \/ VarReset
    \/ VarRound

VariantSpec == VariantInit /\ [][VariantNext]_vars

(***************************************************************************)
(* The chain script on node sets with unique ids whose coordinates may     *)
(* repeat: a model file may give the same q, r on several lines.           *)
(***************************************************************************)
\* The cells of one text row.
RowCells == {<<c, 0 - (c \div 2)>> : c \in 0..(MaxDup - 1)}

\* A model file of n lines with ids 0..n-1, each line naming any row cell.
DupModels ==
    UNION {{[k \in 1..n |-> [id |-> k - 1, q |-> f[k][1], r |-> f[k][2]]] :
                f \in [1..n -> RowCells]} : n \in 1..MaxDup}

DupInit ==
    /\ prog = "pasc_linear"
    /\ model \in DupModels
    /\ direction = "-"
    /\ index \in 0..Len(model)
    /\ edges = FileEdges(model)
    /\ OthersIdle
    /\ pc = "start"
    /\ node_list = GraphNodes(model)
    /\ ref_node = -1
    /\ ref_node_index = -1
    /\ groups = <<>>
    /\ find_key = <<>>
    /\ i = 0
    /\ active_sum = 0
    /\ step_total = 0
    /\ step_all_lines = 0
    /\ pasc_iterations = 0
    /\ run = 1
    /\ first = <<>>

DupNext ==
    \/ RunPasc
    \/ PascLoop
    \/ PascRight
    \/ PascLeft
    \/ PascAddBits
    \/ PascReset

DupSpec == DupInit /\ [][DupNext]_vars

(***************************************************************************)
(* stripe: the two drivers of the stripe enumeration, "stripe" the batch   *)
(* script (script/stripe.py) and "stripe_gui" the interactive one          *)
(* (src/stripe.py).  A direction is kept as the list of its characters.    *)
(***************************************************************************)
\* The characters a direction entry is made of.
Chars == {"N", "E", "S", "W", "e", "s", " "}

\* The direction entries: every text of up to MaxToken characters.
Entries == UNION {[1..n -> Chars] : n \in 0..MaxToken}

\* str.upper() on one character.
UpperChar(c) ==
    IF c = "n" THEN "N" ELSE IF c = "e" THEN "E"
    ELSE IF c = "s" THEN "S" ELSE IF c = "w" THEN "W" ELSE c

\* str.upper()
Upper(text) == [k \in DOMAIN text |-> UpperChar(text[k])]

\* str.strip(): leading and trailing blanks removed.
Strip(text) ==
    LET keep == {k \in DOMAIN text : text[k] # " "}
    IN  IF keep = {} THEN <<>>
        ELSE SubSeq(text, CHOOSE k \in keep : \A l \in keep : k <= l,
                          CHOOSE k \in keep : \A l \in keep : k >= l)

\* script/stripe.py: ['N', 'S', 'W', 'E', 'NE', 'NW', 'SE', 'SW']
ValidDirections ==
    {<<"N">>, <<"S">>, <<"W">>, <<"E">>, <<"N", "E">>, <<"N", "W">>,
     <<"S", "E">>, <<"S", "W">>}

\* src/stripe.py: ['N', 'S', 'W', 'E' 'NE', 'NW', 'SE', 'SW']; the two
\* adjacent literals 'E' 'NE' are one string.
ValidDirectionsGui ==
    {<<"N">>, <<"S">>, <<"W">>, <<"E">> \o <<"N", "E">>, <<"N", "W">>,
     <<"S", "E">>, <<"S", "W">>}

\* The direction check of a driver with the list valid.
DirectionCheck(text, valid) ==
    LET entered == Strip(Upper(text))
    IN  IF entered \notin valid THEN <<"E">> ELSE entered

\* DirectionalCoord with the keys its header comment names.
DirectionalCoordComment(q, r, dir) ==
    IF dir = <<"N", "E">> \/ dir = <<"S", "W">> THEN <<q>>
    ELSE IF dir = <<"N", "W">> \/ dir = <<"S", "E">> THEN <<r + q>>
    ELSE IF dir = <<"N">> \/ dir = <<"S">> THEN <<q>>
    ELSE IF dir = <<"W">> \/ dir = <<"E">> THEN <<r>>
    ELSE <<>>

\* directional_coord: the key as a one-element list, the empty list for the
\* None an unlisted direction falls through to.
DirectionalCoord(q, r, dir) ==
    IF dir = <<"N", "E">> \/ dir = <<"S", "W">> THEN <<r>>
    ELSE IF dir = <<"N", "W">> \/ dir = <<"S", "E">> THEN <<r + q>>
    ELSE IF dir = <<"N">> \/ dir = <<"S">> THEN <<q>>
    ELSE IF dir = <<"W">> \/ dir = <<"E">> THEN <<q + 2 * r>>
    ELSE <<>>

\* stripe_nodes: the ids, in graph order, of the nodes whose key is that of
\* the node with id ref.
StripeNodesOf(m, dir, ref) ==
    LET start == m[CHOOSE k \in DOMAIN m : m[k].id = ref]
        same == SelectSeq(m, LAMBDA n : DirectionalCoord(n.q, n.r, dir)
                                          = DirectionalCoord(start.q, start.r, dir))
    IN  [k \in DOMAIN same |-> same[k].id]

\* run_stripes_button_callback up to its call of run_all_stripes.
RunStripesButtonCallback ==
    /\ prog \in {"stripe", "stripe_gui"}
    /\ pc = "start"
    /\ direction_param' = DirectionCheck(token, IF prog = "stripe"
                                                THEN ValidDirections
                                                ELSE ValidDirectionsGui)
    /\ pc' = "run_all_stripes"
    /\ UNCHANGED <<prog, model, direction, index, run, first, edges, node_list,
                   ref_node, ref_node_index, groups, find_key, i, active_sum,
                   step_total, step_all_lines, pasc_iterations, graph, iteration,
                   vpc, token, stripe_nodes, lines, nodes, out, node_id, row,
                   col_count>>

\* run_all_stripes; only the batch script counts step_total.
RunAllStripes ==
    /\ prog \in {"stripe", "stripe_gui"}
    /\ pc = "run_all_stripes"
    /\ IF index \notin Ids(model)
       THEN /\ pc' = "KeyError"
            /\ UNCHANGED <<stripe_nodes, step_total>>
       ELSE /\ stripe_nodes' = StripeNodesOf(model, direction_param, index)
            /\ step_total' = IF prog = "stripe"
                             THEN Len(StripeNodesOf(model, direction_param, index))
                             ELSE step_total
            /\ pc' = "done"
    /\ UNCHANGED <<prog, model, direction, index, run, first, edges, node_list,
                   ref_node, ref_node_index, groups, find_key, i, active_sum,
                   step_all_lines, pasc_iterations, graph, iteration, vpc, token,
                   direction_param, lines, nodes, out, node_id, row,
                   col_count>>

\* The models the drivers are started on.
StripeModels ==
    {HexGrid(GridWidth, GridHeight)}
        \cup {LineModel(n) : n \in 0..MaxRow}
        \cup UNION {{PermModel(f) : f \in IdOrders(n)} : n \in 1..MaxPerm}

StripeInit ==
    /\ prog \in {"stripe", "stripe_gui"}
    /\ model \in IF prog = "stripe"
                 THEN StripeModels \ {HexGrid(GridWidth, GridHeight)}
                 ELSE StripeModels
    /\ edges = IF model = HexGrid(GridWidth, GridHeight)
               THEN GridEdges(model)
               ELSE FileEdges(model)
    /\ token \in Entries
    /\ index \in 0..Len(model)
    /\ direction = "-"
    /\ graph = <<>>
    /\ iteration = 0
    /\ vpc = "idle"
    /\ direction_param = <<>>
    /\ stripe_nodes = <<>>
    /\ lines = <<>>
    /\ nodes = <<>>
    /\ out = "absent"
    /\ node_id = 0
    /\ row = 0
    /\ col_count = 0
    /\ pc = "start"
    /\ node_list = <<>>
    /\ ref_node = -1
    /\ ref_node_index = -1
    /\ groups = <<>>
    /\ find_key = <<>>
    /\ i = 0
    /\ active_sum = 0
    /\ step_total = 0
    /\ step_all_lines = 0
    /\ pasc_iterations = 0
    /\ run = 1
    /\ first = <<>>

StripeNext ==
    \/ RunStripesButtonCallback
    \/ RunAllStripes

StripeSpec == StripeInit /\ [][StripeNext]_vars

(***************************************************************************)
(* ascii_to_axial: convert_file, from a text grid to a model file.         *)
(***************************************************************************)
\* The characters of a grid line.
GridChars == {"1", "0"}

\* The input files: up to MaxLines lines of up to MaxCols characters each.
Grids ==
    UNION {[1..n -> UNION {[1..c -> GridChars] : c \in 0..MaxCols}] :
               n \in 0..MaxLines}

\* The columns of one row that yield a node, in the order of the inner loop:
\* col runs over range(col_count), is skipped behind the end of the line,
\* and yields a node where the character is '1'.
CellCols(line, count) ==
    SelectSeq([c \in 1..count |-> c - 1],
              LAMBDA col : col < Len(line) /\ line[col + 1] = "1")

\* The (node_id, q, r) records one row appends, node_id counting up from
\* start_id.
RowRecords(line, count, at, start_id) ==
    LET cols == CellCols(line, count)
    IN  [k \in DOMAIN cols |->
            <<start_id + (k - 1), cols[k], at - (cols[k] \div 2)>>]

\* convert_file up to its loops: the empty grid returns at once.
ConvertOpen ==
    /\ prog = "ascii_to_axial"
    /\ pc = "start"
    /\ node_id' = 0
    /\ nodes' = <<>>
    /\ IF Len(lines) = 0
       THEN /\ pc' = "empty"
            /\ UNCHANGED <<col_count, row>>
       ELSE /\ col_count' = Len(lines[1])
            /\ row' = 0
            /\ pc' = "rows"
    /\ UNCHANGED <<model, direction, index, run, first, edges, node_list, ref_node,
                   ref_node_index, groups, find_key, i, active_sum, step_total,
                   step_all_lines, pasc_iterations, graph, iteration, vpc, token,
                   direction_param, stripe_nodes, prog, lines, out>>

\* One pass of the loop over the rows.
ConvertRow ==
    /\ prog = "ascii_to_axial"
    /\ pc = "rows"
    /\ IF row < Len(lines)
       THEN LET recs == RowRecords(lines[row + 1], col_count, row, node_id)
            IN  /\ nodes' = nodes \o recs
                /\ node_id' = node_id + Len(recs)
                /\ row' = row + 1
                /\ pc' = "rows"
       ELSE /\ pc' = "write"
            /\ UNCHANGED <<nodes, node_id, row>>
    /\ UNCHANGED <<model, direction, index, run, first, edges, node_list, ref_node,
                   ref_node_index, groups, find_key, i, active_sum, step_total,
                   step_all_lines, pasc_iterations, graph, iteration, vpc, token,
                   direction_param, stripe_nodes, prog, lines, out, col_count>>

\* The output file is written: one line per record.
ConvertWrite ==
    /\ prog = "ascii_to_axial"
    /\ pc = "write"
    /\ out' = nodes
    /\ pc' = "done"
    /\ UNCHANGED <<model, direction, index, run, first, edges, node_list, ref_node,
                   ref_node_index, groups, find_key, i, active_sum, step_total,
                   step_all_lines, pasc_iterations, graph, iteration, vpc, token,
                   direction_param, stripe_nodes, prog, lines, nodes, node_id,
                   row, col_count>>

ConvertInit ==
    /\ prog = "ascii_to_axial"
    /\ lines \in Grids
    /\ model = <<>>
    /\ direction = "-"
    /\ index = 0
    /\ edges = {}
    /\ graph = <<>>
    /\ iteration = 0
    /\ vpc = "idle"
    /\ token = <<>>
    /\ direction_param = <<>>
    /\ stripe_nodes = <<>>
    /\ nodes = <<>>
    /\ out = "absent"
    /\ node_id = 0
    /\ row = 0
    /\ col_count = 0
    /\ pc = "start"
    /\ node_list = <<>>
    /\ ref_node = -1
    /\ ref_node_index = -1
    /\ groups = <<>>
    /\ find_key = <<>>
    /\ i = 0
    /\ active_sum = 0
    /\ step_total = 0
    /\ step_all_lines = 0
    /\ pasc_iterations = 0
    /\ run = 1
    /\ first = <<>>

ConvertNext ==
    \/ ConvertOpen
    \/ ConvertRow
    \/ ConvertWrite

ConvertSpec == ConvertInit /\ [][ConvertNext]_vars

(***************************************************************************)
(* Vocabulary of the properties: segments of either engine.                *)
(***************************************************************************)
Abs(x) == IF x < 0 THEN 0 - x ELSE x
Max(a, b) == IF a >= b THEN a ELSE b
Pow2(k) == 2 ^ k

\* The k-digit binary representation of d mod 2^k, most significant first.
Bin(d, k) == [j \in 1..k |-> (d \div Pow2(k - j)) % 2]

\* The least k with 2^k >= x, for x >= 1.
CeilLog2(x) == CHOOSE k \in 0..x : Pow2(k) >= x /\ (k = 0 \/ Pow2(k - 1) < x)

Chain == prog = "pasc_linear"
Stripes == prog = "global_maxima"

\* The run has built its segments.
Built == pc \notin {"start", "send_beep", "KeyError", "IndexError"}

ValidInput == index \in Ids(model)

NumSegs == IF Chain THEN Len(node_list) ELSE Cardinality(DOMAIN groups)
SegIdx == 0..(NumSegs - 1)

\* The records of segment j: one node, or the items of one stripe.
Members(j) ==
    IF Chain THEN {At(node_list, j)} ELSE {groups[j][m] : m \in DOMAIN groups[j]}

SegActive(j) == \E d \in Members(j) : d.active
ActiveSegs == {j \in SegIdx : SegActive(j)}

\* The position of the segment that holds the caller's reference node.
TrueRef ==
    IF Chain
    THEN (CHOOSE k \in DOMAIN model : model[k].id = index) - 1
    ELSE CHOOSE j \in DOMAIN groups : \E m \in DOMAIN groups[j] : groups[j][m].node = index

Offset(j) == Abs(j - TrueRef)

\* The farthest offset from the reference.
Reach == Max(TrueRef, NumSegs - 1 - TrueRef)

Reversed == direction \in {"S", "W", "SW", "SE"}

\* The key extremum search groups by, from the direction table.
GroupingKey(n) ==
    IF direction \in {"N", "S"} THEN n.q + 2 * n.r
    ELSE IF direction \in {"E", "W"} THEN n.q
    ELSE IF direction \in {"NE", "SW"} THEN n.q + n.r
    ELSE n.r

RawKeys == {GroupingKey(model[k]) : k \in DOMAIN model}
Rank(key) == Cardinality({x \in RawKeys : x < key})
NodeById(id) == model[CHOOSE k \in DOMAIN model : model[k].id = id]

\* The number of segments the input decomposes into.
ExpectedSegs == IF Chain THEN Len(model) ELSE Cardinality(RawKeys)

(***************************************************************************)
(* C1                                                                      *)
(***************************************************************************)
\* C1: for every chain of n >= 1 segments and every reference in it, the
\* engine eventually leaves its round loop, and when it has, exactly one
\* segment is active.
C1_Terminates ==
    /\ ValidInput => <>(pc = "done")
    /\ [](pc = "done" => Cardinality(ActiveSegs) = 1)

C1_Witness ==
    /\ pc = "done"
    /\ NumSegs >= 4
    /\ TrueRef \notin {0, NumSegs - 1}
    /\ pasc_iterations >= 2
    /\ Cardinality(ActiveSegs) = 1

(***************************************************************************)
(* C2                                                                      *)
(***************************************************************************)
\* C2: after termination every segment i, right or left of ref, has bits
\* equal to the binary representation of |i - ref| padded to the round count.
C2_FinalBitsAreOffset ==
    pc = "done" =>
        \A j \in SegIdx : \A d \in Members(j) : d.bits = Bin(Offset(j), pasc_iterations)

(***************************************************************************)
(* C3                                                                      *)
(***************************************************************************)
\* C3 (as stated): the stripe still active when extremum search terminates
\* is the stripe of highest index k-1.
C3_SurvivorIsExtremum ==
    (Stripes /\ direction \in Directions /\ ValidInput /\ pc = "done") => ActiveSegs = {NumSegs - 1}

\* The requested direction's coordinate of a node: larger is further along.
DirKey(n) == IF Reversed THEN 0 - GroupingKey(n) ELSE GroupingKey(n)

RefIsExtremal ==
    \A k \in DOMAIN model : DirKey(model[k]) <= DirKey(NodeById(index))

\* C3 (amended): the stripe still active when extremum search terminates is
\* the stripe that holds the reference node; it is the stripe of index k-1
\* exactly when no node lies further in the requested direction than the
\* reference node.
C3_SurvivorIsReference ==
    (Stripes /\ direction \in Directions /\ ValidInput /\ pc = "done") =>
        /\ ActiveSegs = {TrueRef}
        /\ (ActiveSegs = {NumSegs - 1}) <=> RefIsExtremal

C3_Witness ==
    /\ Stripes
    /\ pc = "done"
    /\ NumSegs >= 3
    /\ TrueRef < NumSegs - 1
    /\ ~RefIsExtremal
    /\ pasc_iterations >= 2
    /\ SegActive(TrueRef)

(***************************************************************************)
(* C4                                                                      *)
(***************************************************************************)
\* C4: the number of active segments never increases, and a record whose
\* active flag is false never has it set to true again.
C4_Monotone ==
    [][Built =>
        /\ Cardinality(ActiveSegs') <= Cardinality(ActiveSegs)
        /\ \A k \in DOMAIN node_list : ~node_list[k].active => ~node_list'[k].active
        /\ \A j \in DOMAIN groups : \A m \in DOMAIN groups[j] :
               ~groups[j][m].active => ~groups'[j][m].active]_vars

C4_Witness ==
    /\ pc = "loop"
    /\ pasc_iterations >= 2
    /\ Cardinality(ActiveSegs) >= 2
    /\ Cardinality(ActiveSegs) < NumSegs

(***************************************************************************)
(* C5                                                                      *)
(***************************************************************************)
\* C5: the number of rounds executed is at most
\* ceil(log2(max(ref, n-1-ref) + 1)).
C5_RoundBound ==
    Built => pasc_iterations <= CeilLog2(Reach + 1)

C5_Witness ==
    /\ pc = "done"
    /\ pasc_iterations >= 3
    /\ pasc_iterations = CeilLog2(Reach + 1)

(***************************************************************************)
(* C6                                                                      *)
(***************************************************************************)
\* C6: plain chain consensus on 4 nodes with ids 0..3 and reference 0 ends
\* after exactly 2 rounds with bits 00, 01, 10, 11 and 6 steps.
C6_Chain4 ==
    (Chain /\ model = LineModel(4) /\ index = 0 /\ pc = "done") =>
        /\ pasc_iterations = 2
        /\ step_total = 6
        /\ At(node_list, 0).bits = <<0, 0>>
        /\ At(node_list, 1).bits = <<0, 1>>
        /\ At(node_list, 2).bits = <<1, 0>>
        /\ At(node_list, 3).bits = <<1, 1>>

C6_Witness ==
    /\ Chain
    /\ model = LineModel(4)
    /\ index = 0
    /\ pc = "done"
    /\ Len(node_list) = 4

(***************************************************************************)
(* C7                                                                      *)
(***************************************************************************)
\* The bits of the records of segment j after the step.
NextBits(j) ==
    IF Chain THEN {At(node_list', j).bits}
    ELSE {groups'[j][m].bits : m \in DOMAIN groups'[j]}

\* C7: when a non-reference segment at offset d is deactivated in round k,
\* its bits are the k-digit binary representation of d mod 2^k, on either
\* side of ref.
C7_BitsAtDeactivation ==
    [][Built =>
        \A j \in SegIdx :
            (j # TrueRef /\ SegActive(j) /\ ~SegActive(j)') =>
                NextBits(j) = {Bin(Offset(j), pasc_iterations)}]_vars

C7_Witness ==
    /\ pc = "loop"
    /\ pasc_iterations = 2
    /\ TrueRef >= 2
    /\ ~SegActive(TrueRef - 2)
    /\ SegActive(TrueRef)
    /\ \A d \in Members(TrueRef - 2) : d.bits = <<1, 0>>

(***************************************************************************)
(* C8                                                                      *)
(***************************************************************************)
\* C8: on a chain of exactly one segment the engine executes 0 rounds and 0
\* steps and ends normally with that segment active and its bits empty.
C8_SingleSegment ==
    (ValidInput /\ (Chain \/ direction \in Directions) /\ ExpectedSegs = 1) =>
        /\ pc \in {"start", "send_beep", "loop", "done"}
        /\ pasc_iterations = 0
        /\ step_total = 0
        /\ step_all_lines = 0
        /\ pc = "done" =>
              /\ NumSegs = 1
              /\ \A d \in Members(0) : d.active /\ d.bits = <<>>

C8_Witness ==
    /\ Stripes
    /\ pc = "done"
    /\ NumSegs = 1
    /\ Len(model) >= 2
    /\ pasc_iterations = 0

(***************************************************************************)
(* C9                                                                      *)
(***************************************************************************)
\* The places (stripe, position) at which node id occurs in groups.
Places(id) ==
    {<<j, m>> \in (DOMAIN groups) \X (1..Len(model)) :
        m \in DOMAIN groups[j] /\ groups[j][m].node = id}

\* C9: the stripes partition the node set: every node is in exactly one
\* stripe, no stripe is empty, and the stripes hold nothing but the nodes.
C9_Partition ==
    (Stripes /\ pc # "start") =>
        /\ \A id \in Ids(model) : Cardinality(Places(id)) = 1
        /\ \A j \in DOMAIN groups : Len(groups[j]) >= 1
        /\ \A j \in DOMAIN groups : \A m \in DOMAIN groups[j] :
               groups[j][m].node \in Ids(model)

C9_Witness ==
    /\ Stripes
    /\ pc = "loop"
    /\ pasc_iterations = 0
    /\ NumSegs >= 3
    /\ \E j \in DOMAIN groups : Len(groups[j]) >= 2

(***************************************************************************)
(* C10                                                                     *)
(***************************************************************************)
\* The stripe index a node should get.
ExpectedIndex(n) ==
    IF Reversed THEN Cardinality(RawKeys) - 1 - Rank(GroupingKey(n))
    ELSE Rank(GroupingKey(n))

\* C10: the stripe indices are exactly 0..k-1, k the number of distinct raw
\* keys; a stripe's index is the ascending rank of its raw key for N, E, NE,
\* NW and k-1 minus that rank for S, W, SW, SE, so the index is strictly
\* monotone in the grouping key.
C10_DenseIndices ==
    (Stripes /\ direction \in Directions /\ pc # "start") =>
        /\ DOMAIN groups = 0..(Cardinality(RawKeys) - 1)
        /\ \A j \in DOMAIN groups : \A m \in DOMAIN groups[j] :
               j = ExpectedIndex(NodeById(groups[j][m].node))
        /\ \A j1, j2 \in DOMAIN groups :
               LET k1 == GroupingKey(NodeById(At(groups[j1], 0).node))
                   k2 == GroupingKey(NodeById(At(groups[j2], 0).node))
               IN  j1 < j2 => IF Reversed THEN k1 > k2 ELSE k1 < k2

C10_Witness ==
    /\ Stripes
    /\ pc = "loop"
    /\ pasc_iterations = 0
    /\ Reversed
    /\ NumSegs = 3
    /\ \E x \in RawKeys : x < 0
    /\ \E x \in RawKeys : x + 1 \notin RawKeys /\ \E y \in RawKeys : y > x + 1

(***************************************************************************)
(* C11                                                                     *)
(***************************************************************************)
\* The stripe a node id was put in.
StripeOf(id) ==
    CHOOSE j \in DOMAIN groups : \E m \in DOMAIN groups[j] : groups[j][m].node = id

\* The stripe key of the requested direction itself.
RequestedKey(n) == StripeId(<<n.q, n.r>>, direction)

\* C11: two nodes are in the same stripe iff they agree on the key of the
\* alternate direction: q + 2r for N and S, q for E and W, q + r for NE and
\* SW, r for NW and SE.
C11_GroupsByAlternateKey ==
    (Stripes /\ direction \in Directions /\ pc # "start") =>
        \A a, b \in DOMAIN model :
            LET key(n) == IF direction \in {"N", "S"} THEN n.q + 2 * n.r
                          ELSE IF direction \in {"E", "W"} THEN n.q
                          ELSE IF direction \in {"NE", "SW"} THEN n.q + n.r
                          ELSE n.r
            IN  (StripeOf(model[a].id) = StripeOf(model[b].id))
                    <=> (key(model[a]) = key(model[b]))

\* Grouping by the requested direction's own key would give other stripes.
C11_Witness ==
    /\ Stripes
    /\ direction \in Directions
    /\ pc = "loop"
    /\ \E a, b \in DOMAIN model :
           /\ StripeOf(model[a].id) = StripeOf(model[b].id)
           /\ RequestedKey(model[a]) # RequestedKey(model[b])
    /\ \E a, b \in DOMAIN model :
           /\ StripeOf(model[a].id) # StripeOf(model[b].id)
           /\ RequestedKey(model[a]) = RequestedKey(model[b])

(***************************************************************************)
(* C12                                                                     *)
(***************************************************************************)
\* C12: a second run on the same, already used structure with the same
\* direction and reference returns the same round count and step counts and
\* leaves the same bit string on every segment as the first run did.
C12_SecondRunSame ==
    (run = 2 /\ pc = "done") => Result = first

C12_Witness ==
    /\ run = 2
    /\ pc = "done"
    /\ pasc_iterations >= 2
    /\ step_total >= 3
    /\ Result = first
    /\ \E j \in SegIdx : \E d \in Members(j) : 1 \in {d.bits[k] : k \in DOMAIN d.bits}

(***************************************************************************)
(* C13                                                                     *)
(***************************************************************************)
\* C13 (as stated): with a direction token outside the 8 recognised ones the
\* core fails with an InvalidDirection error and builds no stripes from a
\* default key.
C13_InvalidDirectionFails ==
    (Stripes /\ direction \notin Directions /\ pc # "start") =>
        /\ pc = "InvalidDirection"
        /\ groups = <<>>

\* The number of distinct q below the q of node id.
RankOfQ(id) ==
    Cardinality({x \in {model[k].q : k \in DOMAIN model} : x < NodeById(id).q})

\* C13 (amended): with a direction token outside the 8 recognised ones the
\* core raises no error on account of the token: it groups by the default
\* key q, numbers the stripes by ascending q, and with a reference in the
\* lattice runs the search to a normal result.
C13_InvalidDirectionDefaultsToQ ==
    (Stripes /\ direction \notin Directions /\ pc # "start") =>
        /\ pc # "InvalidDirection"
        /\ \A j \in DOMAIN groups : \A m \in DOMAIN groups[j] :
               j = RankOfQ(groups[j][m].node)
        /\ \A id \in Ids(model) : Cardinality(Places(id)) = 1
        /\ ValidInput => pc \in {"send_beep", "loop", "right", "left", "bits",
                                  "reassert", "done"}

C13_Witness ==
    /\ Stripes
    /\ direction \notin Directions
    /\ pc = "done"
    /\ NumSegs >= 2
    /\ pasc_iterations >= 1
    /\ \E j \in DOMAIN groups : Len(groups[j]) >= 2
    /\ \E a, b \in DOMAIN model : model[a].q = model[b].q /\ model[a].r # model[b].r

(***************************************************************************)
(* C14                                                                     *)
(***************************************************************************)
\* C14: a plain chain run whose reference is no node of the chain fails with
\* an error, and after the failure no node carries any segment state: the
\* node dicts are as loading left them.
C14_FailsBeforeWriting ==
    (Chain /\ ~ValidInput /\ pc # "start") =>
        /\ pc = "KeyError"
        /\ node_list = GraphNodes(model)
        /\ \A k \in DOMAIN node_list :
               /\ ~node_list[k].active
               /\ ~node_list[k].primary
               /\ ~node_list[k].secondary
               /\ node_list[k].bits = <<>>

C14_Witness ==
    /\ Chain
    /\ ~ValidInput
    /\ pc = "KeyError"
    /\ Len(node_list) >= 2

(***************************************************************************)
(* C15                                                                     *)
(***************************************************************************)
\* No item of any stripe has been touched since the decomposition.
GroupsUntouched ==
    \A j \in DOMAIN groups : \A m \in DOMAIN groups[j] :
        groups[j][m] = [node |-> groups[j][m].node, primary |-> FALSE,
                        secondary |-> FALSE, active |-> TRUE, bits |-> <<>>]

\* C15: an extremum search whose reference id is in no stripe fails with an
\* error before any sweep: no round, no step, no flag set, no result.
C15_MissingReferenceFails ==
    (Stripes /\ ~ValidInput /\ pc \notin {"start", "send_beep"}) =>
        /\ pc = "IndexError"
        /\ find_key = <<>>
        /\ pasc_iterations = 0
        /\ step_total = 0
        /\ step_all_lines = 0
        /\ GroupsUntouched

C15_Witness ==
    /\ Stripes
    /\ ~ValidInput
    /\ pc = "IndexError"
    /\ NumSegs >= 2
    /\ GroupsUntouched

(***************************************************************************)
(* C16                                                                     *)
(***************************************************************************)
\* C16: extremum search on an empty node set ends in an error, never in a
\* normal result and never in the round loop.
C16_EmptyModelFails ==
    (Stripes /\ model = <<>>) =>
        /\ <>(pc = "IndexError")
        /\ [](/\ pc \in {"start", "send_beep", "IndexError"}
              /\ pasc_iterations = 0
              /\ groups = <<>>)

C16_Witness ==
    /\ Stripes
    /\ model = <<>>
    /\ pc = "IndexError"
    /\ groups = <<>>
    /\ find_key = <<>>

(***************************************************************************)
(* C17                                                                     *)
(***************************************************************************)
\* C17: plain chain consensus hands the engine the nodes in ascending order
\* of node id, whatever the order of the ids in the model file.
C17_AscendingIdOrder ==
    (Chain /\ Built) =>
        \A k, l \in DOMAIN node_list :
            k < l => node_list[k].id < node_list[l].id

(***************************************************************************)
(* C18                                                                     *)
(***************************************************************************)
\* C18: in every lattice, generated or loaded, two nodes are neighbours iff
\* their axial difference is one of the six unit vectors; the adjacency is
\* symmetric and has no self-loops.
C18_Adjacency ==
    /\ \A a, b \in DOMAIN model :
           (<<model[a].id, model[b].id>> \in edges) <=>
               (<<model[b].q - model[a].q, model[b].r - model[a].r>> \in
                    {<<1, 0>>, <<-1, 0>>, <<0, 1>>, <<0, -1>>, <<1, -1>>, <<-1, 1>>})
    /\ \A e \in edges : <<e[2], e[1]>> \in edges /\ e[1] # e[2]

(***************************************************************************)
(* C19                                                                     *)
(***************************************************************************)
\* The record that carries the flags of segment j, now and after the step.
SegRec(j) == IF Chain THEN At(node_list, j) ELSE At(groups[j], 0)
SegRecNext(j) == IF Chain THEN At(node_list', j) ELSE At(groups'[j], 0)

\* The position of the reference segment as the engine holds it.
EngineRef == IF Chain THEN ref_node_index ELSE At(find_key, 0)

\* C19: in a left sweep step at i, segment i becomes secondary when i+1 is
\* primary and i is active or i+1 is secondary and i is inactive, and
\* primary otherwise: the active flag consulted is that of segment i.
C19_LeftMirrorsRight ==
    [][(pc = "left" /\ i > -1) =>
          LET from == SegRec(i + 1)
              own == SegRec(i).active
          IN  /\ SegRecNext(i).secondary <=>
                     ((from.primary /\ own) \/ (from.secondary /\ ~own))
              /\ SegRecNext(i).primary <=>
                     ((from.primary /\ ~own) \/ (from.secondary /\ own))]_vars

(***************************************************************************)
(* C20                                                                     *)
(***************************************************************************)
\* The number of active segments among a..b.
ActiveBetween(a, b) == Cardinality({l \in a..b : SegRec(l).active})

\* The segments right of ref the running or finished right sweep has done.
SweptRight ==
    IF pc = "right" THEN (EngineRef + 1)..(i - 1)
    ELSE IF pc \in {"left", "bits"} THEN (EngineRef + 1)..(NumSegs - 1)
    ELSE {}

\* C20: in a right sweep step at i an active segment takes the flag opposite
\* to that of segment i-1 and an inactive one copies it; so a swept segment
\* is secondary iff the number of active segments among ref+1..i is odd.
C20_RightSweepParity ==
    /\ [][(pc = "right" /\ i < NumSegs) =>
             LET from == SegRec(i - 1)
                 own == SegRec(i).active
             IN  /\ SegRecNext(i).secondary <=> (IF own THEN from.primary ELSE from.secondary)
                 /\ SegRecNext(i).primary <=> (IF own THEN from.secondary ELSE from.primary)]_vars
    /\ [](\A j \in SweptRight :
             /\ SegRec(j).secondary <=> (ActiveBetween(EngineRef + 1, j) % 2 = 1)
             /\ SegRec(j).primary <=> ~SegRec(j).secondary)

C20_Witness ==
    /\ pc = "left"
    /\ pasc_iterations >= 2
    /\ \E j \in SweptRight :
           /\ ~SegRec(j).active
           /\ SegRec(j).secondary
           /\ j + 1 \in SweptRight
           /\ SegRec(j + 1).active
           /\ SegRec(j + 1).primary

(***************************************************************************)
(* C21                                                                     *)
(***************************************************************************)
\* C21: after both sweeps of a round every segment is exactly one of primary
\* and secondary; at every round boundary the bits of every segment are as
\* long as the number of rounds executed; no sweep step finds the segment
\* the beep comes from with neither flag.
C21_OneFlagOneSymbol ==
    /\ pc = "bits" =>
           \A j \in SegIdx : \A d \in Members(j) : d.primary # d.secondary
    /\ pc \in {"loop", "done"} =>
           \A j \in SegIdx : \A d \in Members(j) : Len(d.bits) = pasc_iterations
    /\ (pc = "right" /\ i < NumSegs) =>
           (SegRec(i - 1).primary \/ SegRec(i - 1).secondary)
    /\ (pc = "left" /\ i > -1) =>
           (SegRec(i + 1).primary \/ SegRec(i + 1).secondary)

C21_Witness ==
    /\ pc = "bits"
    /\ pasc_iterations >= 2
    /\ EngineRef >= 2
    /\ EngineRef <= NumSegs - 3
    /\ \E j \in SegIdx : j < EngineRef /\ ~SegRec(j).active /\ SegRec(j).primary
    /\ \E j \in SegIdx : j > EngineRef /\ ~SegRec(j).active /\ SegRec(j).secondary
    /\ \A j \in SegIdx : \A d \in Members(j) : d.primary # d.secondary

(***************************************************************************)
(* C22                                                                     *)
(***************************************************************************)
\* C22: no record ever has primary and secondary both true, and at every
\* round boundary (reset and re-assertion done) the records of the reference
\* segment are the only ones with primary true and none has secondary true.
C22_FlagsExclusive ==
    /\ \A j \in SegIdx : \A d \in Members(j) : ~(d.primary /\ d.secondary)
    /\ pc \in {"loop", "done"} =>
           \A j \in SegIdx : \A d \in Members(j) :
               /\ d.primary <=> (j = EngineRef)
               /\ ~d.secondary

C22_Witness ==
    /\ pc = "loop"
    /\ pasc_iterations >= 2
    /\ NumSegs >= 4
    /\ EngineRef \notin {0, NumSegs - 1}
    /\ \A d \in Members(EngineRef) : d.primary
    /\ \E j \in SegIdx : ~SegActive(j)

(***************************************************************************)
(* C23                                                                     *)
(***************************************************************************)
\* C23: the reference segment is the segment of the caller's reference node
\* in every round, it is primary when a round starts, never secondary, has
\* only '0' symbols in its bits and is never deactivated, so at least one
\* segment is active in every state of the engine.
C23_ReferenceFixed ==
    /\ [](Built =>
             /\ EngineRef = TrueRef
             /\ \A d \in Members(EngineRef) :
                    /\ ~d.secondary
                    /\ d.active
                    /\ \A k \in DOMAIN d.bits : d.bits[k] = 0
                    /\ pc \in {"loop", "right", "left", "bits"} => d.primary
             /\ Cardinality(ActiveSegs) >= 1
             /\ active_sum >= 1)
    /\ [][(Built /\ Built') => EngineRef' = EngineRef]_vars

C23_Witness ==
    /\ pc = "loop"
    /\ pasc_iterations >= 3
    /\ EngineRef \notin {0, NumSegs - 1}
    /\ EngineRef = TrueRef
    /\ \A d \in Members(EngineRef) : d.active /\ d.primary /\ d.bits = <<0, 0, 0>>

(***************************************************************************)
(* C24                                                                     *)
(***************************************************************************)
\* Each record of segment j paired with itself after the step.
RecPairs(j) ==
    IF Chain THEN {<<At(node_list, j), At(node_list', j)>>}
    ELSE {<<groups[j][m], groups'[j][m]>> : m \in DOMAIN groups[j]}

\* The step that deactivates: it follows the emission of the round's symbol.
DeactivationStep == (Chain /\ pc = "reset") \/ (Stripes /\ pc = "bits")

\* C24: a record turns from active to inactive only in the deactivation
\* step of a round, after that round's symbol has been prepended and before
\* the flags are reset; in that step an active record is deactivated iff
\* the symbol of the round is '1', and stays active iff it is '0'.
C24_EmitDeactivateReset ==
    [][Built =>
          \A j \in SegIdx : \A p \in RecPairs(j) :
              /\ (p[1].active /\ ~p[2].active) =>
                     /\ DeactivationStep
                     /\ Len(p[2].bits) = pasc_iterations
                     /\ p[2].bits[1] = 1
              /\ (DeactivationStep /\ p[1].active) =>
                     /\ Len(p[2].bits) = pasc_iterations
                     /\ p[2].active <=> (p[2].bits[1] = 0)
                     /\ ~p[2].secondary]_vars

C24_Witness ==
    /\ pc = "loop"
    /\ pasc_iterations = 2
    /\ \E j \in SegIdx : \E d \in Members(j) : ~d.active /\ d.bits = <<1, 0>>
    /\ \E j \in SegIdx : \E d \in Members(j) : d.active /\ d.bits = <<0, 0>> /\ j # EngineRef
    /\ \E j \in SegIdx : \E d \in Members(j) : ~d.active /\ d.bits = <<1, 1>>

(***************************************************************************)
(* C25                                                                     *)
(***************************************************************************)
\* C25: whatever the direction, the lattice and the reference, the only
\* segment active after a terminated run is the reference segment, and its
\* bits are '0' symbols only, one per round.
C25_ReferenceSurvivesWithZeros ==
    (ValidInput /\ pc = "done") =>
        /\ \A j \in SegIdx : \A d \in Members(j) : d.active <=> (j = TrueRef)
        /\ \A d \in Members(TrueRef) : d.bits = [k \in 1..pasc_iterations |-> 0]

C25_Witness ==
    /\ Stripes
    /\ Reversed
    /\ pc = "done"
    /\ pasc_iterations >= 2
    /\ TrueRef \notin {0, NumSegs - 1}
    /\ Len(groups[TrueRef]) >= 2
    /\ \A d \in Members(TrueRef) : d.active /\ d.bits = [k \in 1..pasc_iterations |-> 0]

(***************************************************************************)
(* C26                                                                     *)
(***************************************************************************)
\* The index of the lowest set bit of d, for d >= 1.
LowBit(d) == CHOOSE k \in 0..d : d % Pow2(k) = 0 /\ d % Pow2(k + 1) # 0

\* C26: a non-reference segment at distance d from ref, left or right, is
\* deactivated in round 1 + (index of the lowest set bit of d); after round
\* k the active segments are exactly those at a distance divisible by 2^k.
C26_DeactivationRound ==
    /\ [][Built =>
             \A j \in SegIdx :
                 (SegActive(j) /\ ~SegActive(j)') =>
                     (j # TrueRef /\ pasc_iterations = 1 + LowBit(Offset(j)))]_vars
    /\ [](pc \in {"loop", "done"} =>
             ActiveSegs = {j \in SegIdx : Offset(j) % Pow2(pasc_iterations) = 0})

C26_Witness ==
    /\ pc = "loop"
    /\ pasc_iterations = 2
    /\ TrueRef >= 4
    /\ TrueRef + 4 <= NumSegs - 1
    /\ ActiveSegs = {j \in SegIdx : Offset(j) % 4 = 0}
    /\ Cardinality(ActiveSegs) >= 3

(***************************************************************************)
(* C27                                                                     *)
(***************************************************************************)
\* The number of binary digits of x: 0 for 0, floor(log2 x) + 1 otherwise.
BitLength(x) == CHOOSE k \in 0..x : Pow2(k) > x /\ (k = 0 \/ Pow2(k - 1) <= x)

\* C27: the number of rounds of a terminated run is exactly the number of
\* binary digits of D = max(ref, n-1-ref), whatever the stripe sizes and
\* whichever side the farthest segment lies on.
C27_RoundsAreBitLength ==
    (ValidInput /\ pc = "done") => pasc_iterations = BitLength(Reach)

C27_Witness ==
    /\ Stripes
    /\ pc = "done"
    /\ TrueRef > NumSegs - 1 - TrueRef
    /\ TrueRef = 3
    /\ pasc_iterations = 2
    /\ \E j \in DOMAIN groups : Len(groups[j]) >= 3

(***************************************************************************)
(* C28                                                                     *)
(***************************************************************************)
\* C28: a sweep never updates the reference segment and updates every other
\* segment once per round, so at every round boundary plain consensus has
\* counted rounds * (n - 1) steps and extremum search rounds * (k - 1)
\* stripe steps and rounds * (N - size of the reference stripe) total steps,
\* which is at least the stripe steps.
C28_StepCounters ==
    /\ pc = "right" => (i > EngineRef /\ i <= NumSegs)
    /\ pc = "left" => (i < EngineRef /\ i >= -1)
    /\ (Chain /\ pc \in {"loop", "done"}) =>
           step_total = pasc_iterations * (Len(node_list) - 1)
    /\ (Stripes /\ pc \in {"loop", "done"}) =>
           /\ step_all_lines = pasc_iterations * (NumSegs - 1)
           /\ step_total = pasc_iterations * (Len(model) - Len(groups[EngineRef]))
           /\ step_total >= step_all_lines

C28_Witness ==
    /\ Stripes
    /\ pc = "done"
    /\ pasc_iterations >= 2
    /\ EngineRef \notin {0, NumSegs - 1}
    /\ Len(groups[EngineRef]) >= 2
    /\ step_all_lines = pasc_iterations * (NumSegs - 1)
    /\ step_total > step_all_lines

(***************************************************************************)
(* C29                                                                     *)
(***************************************************************************)
\* The node ids of a stripe, in item order, and the bits of node id in g.
StripeNodes(stripe) == [m \in DOMAIN stripe |-> stripe[m].node]
BitsOfNode(g, id) ==
    LET p == CHOOSE p \in (DOMAIN g) \X (1..Len(model)) :
                 p[2] \in DOMAIN g[p[1]] /\ g[p[1]][p[2]].node = id
    IN  g[p[1]][p[2]].bits

\* The search in the opposite direction has the stripes of the first search
\* in reverse order and returns the same counters.
C29_ReversedSameCounters ==
    (run = 3 /\ pc = "done") =>
        /\ DOMAIN groups = DOMAIN first.groups
        /\ \A j \in DOMAIN groups :
               StripeNodes(groups[j]) = StripeNodes(first.groups[NumSegs - 1 - j])
        /\ pasc_iterations = first.iterations
        /\ step_all_lines = first.lines
        /\ step_total = first.steps

\* C29: extremum search in a direction and in the opposite direction, same
\* lattice and reference, reverses the stripe order and yields the same
\* iterations, stripe steps, total steps and final bits of every node.
C29_OppositeSameResult ==
    (run = 3 /\ pc = "done") =>
        /\ C29_ReversedSameCounters
        /\ \A id \in Ids(model) : BitsOfNode(groups, id) = BitsOfNode(first.groups, id)

(***************************************************************************)
(* C30                                                                     *)
(***************************************************************************)
\* C30: whenever a stripe-level update has completed all records of one
\* stripe carry the same active, primary, secondary and bits values, those
\* of the first record groups[i][0].
C30_StripeMembersAgree ==
    Stripes =>
        \A j \in DOMAIN groups : \A m \in DOMAIN groups[j] :
            /\ groups[j][m].active = At(groups[j], 0).active
            /\ groups[j][m].primary = At(groups[j], 0).primary
            /\ groups[j][m].secondary = At(groups[j], 0).secondary
            /\ groups[j][m].bits = At(groups[j], 0).bits

C30_Witness ==
    /\ Stripes
    /\ pc = "left"
    /\ pasc_iterations >= 2
    /\ Len(groups[EngineRef]) >= 2
    /\ \E j \in DOMAIN groups :
           /\ j # EngineRef
           /\ Len(groups[j]) >= 2
           /\ \A m \in DOMAIN groups[j] :
                  /\ ~groups[j][m].active
                  /\ groups[j][m].secondary
                  /\ groups[j][m].bits = <<1>>

(***************************************************************************)
(* C31: the stripe engine on single-node stripes is the node engine.       *)
(***************************************************************************)
\* The decomposition is the node sequence itself: stripe k holds exactly the
\* node at list position k.
SingleNodeStripes ==
    /\ Cardinality(DOMAIN groups) = Len(model)
    /\ \A k \in DOMAIN groups :
          Len(groups[k]) = 1 /\ At(groups[k], 0).node = model[k + 1].id

\* C31: when the stripe engine has finished on a decomposition in which
\* every stripe holds exactly one node, in the order of the node sequence and
\* with the same reference, its round count and its final bits per node are
\* those of the node engine on that sequence, and stripe_steps and
\* total_steps both equal the node engine's steps.
C31_StripeEngineIsNodeEngine ==
    (run = 4 /\ pc = "done" /\ SingleNodeStripes) =>
        /\ pasc_iterations = first.iterations
        /\ \A k \in DOMAIN groups :
              At(groups[k], 0).bits = first.bits[k + 1][1]
        /\ step_all_lines = first.steps
        /\ step_total = first.steps

\* Both engines have finished on a sequence of six nodes with an inner
\* reference, after three rounds, with single-node stripes.
C31_Witness ==
    /\ run = 4
    /\ pc = "done"
    /\ SingleNodeStripes
    /\ Len(model) = 6
    /\ index = 1
    /\ pasc_iterations = 3
    /\ first.iterations = 3

(***************************************************************************)
(* C32: the two stopping rules, reference at the first chain position.     *)
(***************************************************************************)
\* The node at chain position k (0-based) of the variant.
ChainNode(k) == graph[At(SortedChain(graph), k)]

\* The engine stands between two rounds, with the reference first.
EngineAtBoundary == Chain /\ pc \in {"loop", "done"} /\ ref_node_index = 0
\* The variant stands between two rounds.
VariantAtBoundary == vpc \in {"loop", "done"}

Reverse(seq) == [k \in DOMAIN seq |-> seq[Len(seq) + 1 - k]]

\* C32: with the reference at the first position of the chain, (a) after the
\* same number of completed rounds, and after any later round of the variant
\* once the engine has stopped, the same chain positions are active in both
\* programs, so every node deactivates in the same round; (b) when both have
\* stopped the variant has executed exactly one round more than the engine;
\* (c) the first R symbols of the variant's identifier, reversed, are the
\* engine's final bits (R = the engine's round count).
C32_VariantMatchesEngine ==
    (EngineAtBoundary /\ VariantAtBoundary) =>
        /\ (iteration = pasc_iterations \/ (pc = "done" /\ iteration >= pasc_iterations)) =>
              \A k \in 0..(Len(node_list) - 1) :
                  At(node_list, k).active = (ChainNode(k).state = "active")
        /\ (pc = "done" /\ vpc = "done") =>
              /\ Len(node_list) >= 1
              /\ iteration = pasc_iterations + 1
              /\ \A k \in 0..(Len(node_list) - 1) :
                    Reverse(SubSeq(ChainNode(k).identifier, 1, pasc_iterations))
                        = At(node_list, k).bits

\* Both programs have stopped on a chain of six nodes with the reference
\* first: the engine after three rounds, the variant after four.
C32_Witness ==
    /\ Chain
    /\ pc = "done"
    /\ vpc = "done"
    /\ ref_node_index = 0
    /\ Len(node_list) = 6
    /\ pasc_iterations = 3
    /\ iteration = 4
    /\ At(node_list, 5).bits = <<1, 0, 1>>
    /\ ChainNode(5).identifier = <<1, 0, 1, 0>>

(***************************************************************************)
(* C33: the start position of the sweeps when coordinates repeat.          *)
(***************************************************************************)
\* C33: in plain chain consensus, from the first round to the end of the
\* run, the position both sweeps start from is the list position of the
\* node with the caller-chosen id, whatever coordinates the other nodes have.
C33_SweepsStartAtReference ==
    (Chain /\ Built /\ ValidInput) => ref_node_index = TrueRef

(***************************************************************************)
(* C34: the direction check of the stripe drivers.                         *)
(***************************************************************************)
\* The 8 direction tokens.
EightTokens ==
    {<<"N">>, <<"S">>, <<"E">>, <<"W">>, <<"N", "E">>, <<"N", "W">>,
     <<"S", "E">>, <<"S", "W">>}

\* The direction either driver is to run for an entry: the upper-cased and
\* trimmed entry if it is one of the 8 tokens, 'E' otherwise.
CheckedDirection(text) ==
    IF Strip(Upper(text)) \in EightTokens THEN Strip(Upper(text)) ELSE <<"E">>

\* C34: once the direction check of a stripe driver has run, the direction
\* it hands on is the upper-cased and trimmed entry if that is one of the 8
\* tokens and 'E' otherwise, in the batch driver and in the interactive
\* driver alike, so both run the same direction for the same entry.
C34_DirectionCheckDefaultsToE ==
    (prog \in {"stripe", "stripe_gui"} /\ pc # "start") =>
        direction_param = CheckedDirection(token)

(***************************************************************************)
(* C35: the step count of the stripe enumeration.                          *)
(***************************************************************************)
\* The stripe key of the direction table: N, S: q; NE, SW: r; NW, SE: q + r;
\* E, W: q + 2r.
TableKey(n, dir) ==
    IF dir \in {<<"N">>, <<"S">>} THEN n.q
    ELSE IF dir \in {<<"N", "E">>, <<"S", "W">>} THEN n.r
    ELSE IF dir \in {<<"N", "W">>, <<"S", "E">>} THEN n.q + n.r
    ELSE n.q + 2 * n.r

OneCells ==
    {c \in (0..(Len(lines) - 1)) \X (0..MaxCols) :
        c[2] < Len(lines[c[1] + 1]) /\ lines[c[1] + 1][c[2] + 1] = "1"}

\* The number of cells holding '1' that come before cell c in row-major order.
RowMajorRank(c, cells) ==
    Cardinality({d \in cells : d[1] < c[1] \/ (d[1] = c[1] /\ d[2] < c[2])})

\* The record the converter is to write for cell c among cells.
ExpectedRecord(c, cells) ==
    <<RowMajorRank(c, cells), c[2], c[1] - (c[2] \div 2)>>

\* The written records are exactly those of cells, ids 0, 1, 2, ... in
\* row-major order, and no two records share (q, r).
WrittenFor(cells) ==
    /\ Len(out) = Cardinality(cells)
    /\ \A c \in cells : out[RowMajorRank(c, cells) + 1] = ExpectedRecord(c, cells)
    /\ \A a, b \in DOMAIN out :
          (out[a][2] = out[b][2] /\ out[a][3] = out[b][3]) => a = b

\* C36: when the converter has finished, the output holds one record per
\* cell holding '1', with ids 0, 1, 2, ... without gaps in row-major order,
\* q = col and r = row - floor(col / 2), and no two records share (q, r);
\* an empty input leaves no output file.
C36_ConverterRecords ==
    /\ pc = "done" => WrittenFor(OneCells)
    /\ pc = "empty" => (Len(lines) = 0 /\ out = "absent")
    /\ Len(lines) = 0 => out = "absent"

====
